---- MODULE Spec2Model ----
(***************************************************************************)
(* The JWKS client cache of go-jwksclient: Client.Refresh, Client.get,     *)
(* Client.updateExpiresAfter, Client.GetKeySet (client.go) and the header  *)
(* calculation expiresAfter / parseMaxAge / parseAge / parseExpires        *)
(* (headers.go).                                                           *)
(*                                                                         *)
(* Time is a count of seconds.  time.Time{} is Zero; the process clock     *)
(* starts at Epoch, further from Zero than any duration of the model, as   *)
(* the wall clock is further from year 1 than any time.Duration.           *)
(* A Refresh call that fetches takes two steps, RefreshCall (lock, expiry  *)
(* check) and RefreshInstall (the answer of the endpoint arrives, the      *)
(* cache fields are written, unlock); the clock may advance in between.    *)
(***************************************************************************)
EXTENDS Integers, Sequences, FiniteSets, TLC

VARIABLES
    config,             \* Client.config
    now,                \* the wall clock, time.Now()
    cacheExpiresAfter,  \* Client.cacheExpiresAfter
    cachedResponse,     \* Client.cachedResponse
    cachedHeaders,      \* Client.cachedHeaders
    cachedJWKSet,       \* Client.cachedJWKSet
    cachedError,        \* Client.cachedError
    keysStaleSince,     \* Client.keysStaleSince
    pc,                 \* "idle", or "get" while Refresh holds c.m inside c.get()
    last,               \* the last step of a caller and what the call returned
    hist,               \* history of the installed attempts (observer)
    probe,              \* input and result of one expiresAfter evaluation
    variant,            \* "locked": the Client of client.go; "options": the
                        \* Client built from options, with autoRefresh
    sched,              \* the driver (Refresher or autoRefresh): its position,
                        \* contexts, ticker, wait group, callback, result
    mu,                 \* Client.m, the sync.RWMutex
    rf,                 \* the concurrent Refresh calls, by caller
    rd,                 \* a concurrent GetKeySet or GetAll call
    snap,               \* the cache as the last completed Refresh left it
    dir,                \* the key directory on disk
    listing,            \* result of one GetFileMetadata evaluation
    watcher,            \* keyfiles.Watcher and its Watch goroutine
    loader              \* private.Keyloader and its LoadKeysWatch call

cache == <<cacheExpiresAfter, cachedResponse, cachedHeaders, cachedJWKSet,
           cachedError, keysStaleSince>>

vars == <<config, now, cacheExpiresAfter, cachedResponse, cachedHeaders,
          cachedJWKSet, cachedError, keysStaleSince, pc, last, hist,
          probe, variant, sched, mu, rf, rd, snap, dir, listing, watcher,
          loader>>

\* the state of the drivers and of the concurrent callers
ext == <<variant, sched, mu, rf, rd, snap, dir, listing, watcher, loader>>

\* the state of the key directory loader
kf == <<dir, listing, watcher, loader>>

----------------------------------------------------------------------------
(* Bounds *)

MaxTime == 3        \* the clock runs from Epoch to Epoch + MaxTime
MaxAgeVal == 2      \* header numbers range over 0..MaxAgeVal
MaxParts == 2       \* directives in one Cache-Control header
Epoch == 100        \* clock value at construction

(* Program constants *)

Zero == 0           \* time.Time{}
StatusOK == 200     \* http.StatusOK

NoErr == "nil"
NilKs == "nil"
NilBody == "nil"

ErrKeysNotFetched == "keys not fetched"
ErrRequest == "performing request"
ErrReadBody == "reading response body"
ErrStatus == "unexpected HTTP status code"
ErrUnmarshal == "unmarshalling JSON"

ErrParseMaxAge == "parsing max-age"
ErrParseAge == "parsing age"
ErrNegativeAge == "negative age"
ErrParseExpires == "parsing expires"
ErrNoCacheHeaders == "cache headers not present"

cacheControlFieldMaxAge == "max-age"
cacheControlFieldSMaxAge == "s-maxage"

----------------------------------------------------------------------------
(* Header values.  A header value is the empty string (also what          *)
(* http.Header.Get gives for an absent header), text that does not parse, *)
(* or a number.                                                           *)

Empty == [k |-> "empty", n |-> 0]
Bad == [k |-> "bad", n |-> 0]
Num(n) == [k |-> "num", n |-> n]

Max(a, b) == IF a >= b THEN a ELSE b
Min(a, b) == IF a <= b THEN a ELSE b

(* A Cache-Control header is its comma-separated parts, each already      *)
(* trimmed: part.key is the text before "=" and part.val the text after.  *)
(* The empty sequence is the empty (or absent) header.                    *)
Header(cc, age, expires) ==
    [isNil |-> FALSE, cc |-> cc, age |-> age, expires |-> expires]

NilHeader == [isNil |-> TRUE, cc |-> <<>>, age |-> Empty, expires |-> Empty]

\* time.ParseDuration(str + "s")
ParseDuration(v) ==
    IF v.k = "num" THEN [err |-> FALSE, d |-> v.n] ELSE [err |-> TRUE, d |-> 0]

\* time.Parse(time.RFC1123, str)
ParseTime(v) ==
    IF v.k = "num" THEN [err |-> FALSE, t |-> v.n] ELSE [err |-> TRUE, t |-> Zero]

\* scanParts stopping at s-maxage as it does at max-age
RECURSIVE scanParts_FirstWins(_, _, _)
scanParts_FirstWins(parts, i, cur) ==
    IF i > Len(parts) THEN cur
    ELSE IF parts[i].key \in {cacheControlFieldMaxAge, cacheControlFieldSMaxAge}
         THEN parts[i].val
         ELSE scanParts_FirstWins(parts, i + 1, cur)

\* the loop of parseMaxAge over parts[i..], maxAgeStr being cur so far
RECURSIVE scanParts(_, _, _)
scanParts(parts, i, cur) ==
    IF i > Len(parts) THEN cur
    ELSE IF parts[i].key = cacheControlFieldMaxAge
         THEN parts[i].val                          \* break
         ELSE IF parts[i].key = cacheControlFieldSMaxAge
              THEN scanParts(parts, i + 1, parts[i].val)   \* continue
              ELSE scanParts(parts, i + 1, cur)

parseMaxAge(header) ==
    LET cch == header.cc
        maxAgeStr == scanParts(cch, 1, Empty)
        maxAge == ParseDuration(maxAgeStr)
    IN  IF cch = <<>> THEN [d |-> 0, ok |-> FALSE, err |-> FALSE]
        ELSE IF maxAgeStr = Empty THEN [d |-> 0, ok |-> FALSE, err |-> FALSE]
        ELSE IF maxAge.err THEN [d |-> 0, ok |-> FALSE, err |-> TRUE]
        ELSE [d |-> maxAge.d, ok |-> TRUE, err |-> FALSE]

parseAge(header) ==
    LET ageStr == header.age
        age == ParseDuration(ageStr)
    IN  IF ageStr = Empty THEN [d |-> 0, ok |-> FALSE, err |-> FALSE]
        ELSE IF age.err THEN [d |-> 0, ok |-> FALSE, err |-> TRUE]
        ELSE [d |-> age.d, ok |-> TRUE, err |-> FALSE]

parseExpires(header) ==
    LET expiresStr == header.expires
        expires == ParseTime(expiresStr)
    IN  IF expiresStr = Empty THEN [t |-> Zero, ok |-> FALSE, err |-> FALSE]
        ELSE IF expires.err THEN [t |-> Zero, ok |-> FALSE, err |-> TRUE]
        ELSE [t |-> expires.t, ok |-> TRUE, err |-> FALSE]

Fail(e) == [t |-> Zero, err |-> e]
Ok(t) == [t |-> t, err |-> NoErr]

\* expiresAfter(now, headers): the candidate expiry, or an error
expiresAfter(t, headers) ==
    LET ma == parseMaxAge(headers)
        ag == parseAge(headers)
        ex == parseExpires(headers)
        totalAge == IF ag.ok THEN ma.d - ag.d ELSE ma.d
    IN  IF ma.err THEN Fail(ErrParseMaxAge)
        ELSE IF ma.ok
             THEN IF ag.err THEN Fail(ErrParseAge)
                  ELSE IF ag.ok /\ totalAge < 0 THEN Fail(ErrNegativeAge)
                  ELSE Ok(t + totalAge)
             ELSE IF ex.err THEN Fail(ErrParseExpires)
                  ELSE IF ~ex.ok THEN Fail(ErrNoCacheHeaders)
                  ELSE Ok(ex.t)

----------------------------------------------------------------------------
(* The endpoint.  A document is the JSON of a key set or junk; a response *)
(* is what the transport hands to Client.get.                             *)

Docs == {"doc1", "doc2", "junk"}

\* json.Unmarshal(body, kSet)
Unmarshal(doc) ==
    IF doc = "doc1" THEN [err |-> FALSE, ks |-> "ks1"]
    ELSE IF doc = "doc2" THEN [err |-> FALSE, ks |-> "ks2"]
    ELSE [err |-> TRUE, ks |-> NilKs]

MaxAgePart(n) == [key |-> cacheControlFieldMaxAge, val |-> Num(n)]

\* the response headers the endpoint of the client model answers with
ClientHeaders ==
    { Header(<<>>, Empty, Empty),
      Header(<<MaxAgePart(1)>>, Empty, Empty),
      Header(<<MaxAgePart(2)>>, Empty, Empty),
      Header(<<MaxAgePart(1)>>, Num(2), Empty),
      Header(<<[key |-> cacheControlFieldMaxAge, val |-> Bad]>>, Empty, Empty),
      Header(<<>>, Empty, Num(Epoch + 1)) }

\* the headers of the answers that are not a 200 with a key set
ErrorHeaders ==
    { Header(<<>>, Empty, Empty), Header(<<MaxAgePart(2)>>, Empty, Empty) }

Response(transportErr, readErr, status, doc, headers) ==
    [transportErr |-> transportErr, readErr |-> readErr, status |-> status,
     doc |-> doc, headers |-> headers]

Responses ==
    { Response(TRUE, FALSE, StatusOK, "junk", NilHeader) }
    \cup { Response(FALSE, TRUE, StatusOK, "junk", h) : h \in ErrorHeaders }
    \cup { Response(FALSE, FALSE, 500, "junk", h) : h \in ErrorHeaders }
    \cup { Response(FALSE, FALSE, StatusOK, "junk", h) : h \in ErrorHeaders }
    \cup { Response(FALSE, FALSE, StatusOK, d, h) :
               d \in {"doc1", "doc2"}, h \in ClientHeaders }

\* Client.get
get(resp) ==
    LET u == Unmarshal(resp.doc)
    IN  IF resp.transportErr
        THEN [ks |-> NilKs, body |-> NilBody, headers |-> NilHeader, err |-> ErrRequest]
        ELSE IF resp.readErr
        THEN [ks |-> NilKs, body |-> NilBody, headers |-> resp.headers, err |-> ErrReadBody]
        ELSE IF resp.status # StatusOK
        THEN [ks |-> NilKs, body |-> resp.doc, headers |-> resp.headers, err |-> ErrStatus]
        ELSE IF u.err
        THEN [ks |-> NilKs, body |-> resp.doc, headers |-> resp.headers, err |-> ErrUnmarshal]
        ELSE [ks |-> u.ks, body |-> resp.doc, headers |-> resp.headers, err |-> NoErr]

----------------------------------------------------------------------------
(* The client *)

CacheMinValues == {-1, 0, 2}
CacheMaxValues == {0, 1, 3}
CacheErrorsValues == {0, 2}
KeepStaleKeysValues == {0, 2}

Configs ==
    [CacheMin : CacheMinValues, CacheMax : CacheMaxValues,
     CacheErrors : CacheErrorsValues, KeepStaleKeys : KeepStaleKeysValues]

\* GetKeySet without the test for a missing key set
GetKeySet_NoNilCheck(err, staleSince, ks, cfg, t) ==
    IF err # NoErr /\ staleSince + cfg.KeepStaleKeys < t
    THEN [ks |-> NilKs, err |-> err]
    ELSE IF ks = NilKs
         THEN [ks |-> NilKs, err |-> ErrKeysNotFetched]
         ELSE [ks |-> ks, err |-> NoErr]

\* GetKeySet with the condition bracketed as (err && nil) || stale
GetKeySet_Misbracketed(err, staleSince, ks, cfg, t) ==
    IF (err # NoErr /\ ks = NilKs) \/ staleSince + cfg.KeepStaleKeys < t
    THEN [ks |-> NilKs, err |-> err]
    ELSE IF ks = NilKs
         THEN [ks |-> NilKs, err |-> ErrKeysNotFetched]
         ELSE [ks |-> ks, err |-> NoErr]

\* Client.GetKeySet at time t
GetKeySet(err, staleSince, ks, cfg, t) ==
    IF err # NoErr /\ (staleSince + cfg.KeepStaleKeys < t \/ ks = NilKs)
    THEN [ks |-> NilKs, err |-> err]
    ELSE IF ks = NilKs
         THEN [ks |-> NilKs, err |-> ErrKeysNotFetched]
         ELSE [ks |-> ks, err |-> NoErr]

\* the expiry check with Before in place of !After
CacheStillValid_Strict(force, t, exp) == ~force /\ t < exp

\* Refresh: "cache is still valid", the call returns (false, nil)
CacheStillValid(force, t, exp) == ~force /\ ~(t > exp)

\* the stale timestamp written at every failure
StaleSince_EveryFailure(err, staleSince, t) ==
    IF err = NoErr THEN Zero ELSE t

\* the stale timestamp never reset
StaleSince_NoClear(err, staleSince, t) ==
    IF err # NoErr /\ staleSince = Zero THEN t ELSE staleSince

\* Refresh: keysStaleSince after an attempt that ended with err at time t
StaleSince(err, staleSince, t) ==
    IF err = NoErr THEN Zero
    ELSE IF staleSince = Zero THEN t ELSE staleSince

\* Refresh: cachedJWKSet after an attempt
\* the key set replaced by every attempt
KeySetAfter_Always(err, ks, old) == ks

KeySetAfter(err, ks, old) == IF err = NoErr THEN ks ELSE old

\* updateExpiresAfter with the floor applied before the ceiling
updateExpiresAfter_CeilingLast(cfg, exp, t, headers, err) ==
    LET h == expiresAfter(t, headers)
        raised == IF h.t < t + cfg.CacheMin THEN t + cfg.CacheMin ELSE h.t
    IN  IF err # NoErr
        THEN IF cfg.CacheErrors > 0 THEN t + cfg.CacheErrors ELSE exp
        ELSE IF h.err # NoErr
             THEN t + cfg.CacheMin
             ELSE IF t + cfg.CacheMax < raised THEN t + cfg.CacheMax ELSE raised

\* updateExpiresAfter testing CacheErrors >= 0
updateExpiresAfter_ErrorsGE(cfg, exp, t, headers, err) ==
    LET h == expiresAfter(t, headers)
        capped == IF t + cfg.CacheMax < h.t THEN t + cfg.CacheMax ELSE h.t
    IN  IF err # NoErr
        THEN IF cfg.CacheErrors >= 0 THEN t + cfg.CacheErrors ELSE exp
        ELSE IF h.err # NoErr
             THEN t + cfg.CacheMin
             ELSE IF capped < t + cfg.CacheMin THEN t + cfg.CacheMin ELSE capped

\* updateExpiresAfter without the floor on a header candidate
updateExpiresAfter_NoFloor(cfg, exp, t, headers, err) ==
    LET h == expiresAfter(t, headers)
        capped == IF t + cfg.CacheMax < h.t THEN t + cfg.CacheMax ELSE h.t
    IN  IF err # NoErr
        THEN IF cfg.CacheErrors > 0 THEN t + cfg.CacheErrors ELSE exp
        ELSE IF h.err # NoErr
             THEN t + cfg.CacheMin
             ELSE capped

\* updateExpiresAfter taking CacheMax = 0 for "no ceiling"
updateExpiresAfter_ZeroUnlimited(cfg, exp, t, headers, err) ==
    LET h == expiresAfter(t, headers)
        capped == IF cfg.CacheMax # 0 /\ t + cfg.CacheMax < h.t
                  THEN t + cfg.CacheMax ELSE h.t
    IN  IF err # NoErr
        THEN IF cfg.CacheErrors > 0 THEN t + cfg.CacheErrors ELSE exp
        ELSE IF h.err # NoErr
             THEN t + cfg.CacheMin
             ELSE IF capped < t + cfg.CacheMin THEN t + cfg.CacheMin ELSE capped

\* Client.updateExpiresAfter: cacheExpiresAfter after an attempt at time t
updateExpiresAfter(cfg, exp, t, headers, err) ==
    LET h == expiresAfter(t, headers)
        capped == IF t + cfg.CacheMax < h.t THEN t + cfg.CacheMax ELSE h.t
    IN  IF err # NoErr
        THEN IF cfg.CacheErrors > 0 THEN t + cfg.CacheErrors ELSE exp
        ELSE IF h.err # NoErr
             THEN t + cfg.CacheMin
             ELSE IF capped < t + cfg.CacheMin THEN t + cfg.CacheMin ELSE capped

\* last.op is "Refresh" when a Refresh call has just returned, "get" while
\* one is inside c.get(); last.after tells what a Refresh(false) call
\* follows with no time in between: "noop", "fetched-ok" or "fetched-err"
\* for a Refresh(false) call that returned at this very instant, else "other"
NoCall == [op |-> "none", force |-> FALSE, refreshed |-> FALSE,
           ks |-> NilKs, err |-> NoErr, after |-> "other"]

Follows(l, force) ==
    IF force \/ l.op # "Refresh" \/ l.force THEN "other"
    ELSE IF ~l.refreshed THEN "noop"
    ELSE IF l.err = NoErr THEN "fetched-ok" ELSE "fetched-err"

NoHist == [outcome |-> "none", prev |-> "none", okKs |-> NilKs,
           firstFailAt |-> Zero, err |-> NoErr]

NoProbe == [headers |-> NilHeader, t |-> Zero, done |-> FALSE, res |-> Fail(NoErr)]

\* no driver and no concurrent caller
NoSched == [kind |-> "none", dpc |-> "new"]
NoMu == [w |-> "none", r |-> {}]
NoSnap == [ks |-> NilKs, headers |-> NilHeader, body |-> NilBody, err |-> NoErr,
           staleSince |-> Zero, exp |-> Zero]

NoDir == [readable |-> FALSE, entries |-> <<>>]
NoListing == [done |-> FALSE, files |-> <<>>, skipped |-> {}, err |-> NoErr]
NoWatcher == [pc |-> "none"]
NoLoader == [pc |-> "none"]

KfIdle ==
    /\ dir = NoDir
    /\ listing = NoListing
    /\ watcher = NoWatcher
    /\ loader = NoLoader

ExtIdle ==
    /\ KfIdle
    /\ variant = "locked"
    /\ sched = NoSched
    /\ mu = NoMu
    /\ rf = <<>>
    /\ rd = <<>>
    /\ snap = NoSnap

\* New
Init ==
    /\ config \in Configs
    /\ now = Epoch
    /\ cacheExpiresAfter = Zero
    /\ cachedResponse = NilBody
    /\ cachedHeaders = NilHeader
    /\ cachedJWKSet = NilKs
    /\ cachedError = NoErr
    /\ keysStaleSince = Zero
    /\ pc = "idle"
    /\ last = NoCall
    /\ hist = NoHist
    /\ probe = NoProbe
    /\ ExtIdle

\* a second passes
Tick ==
    /\ now < Epoch + MaxTime
    /\ now' = now + 1
    /\ last' = IF pc = "get" THEN last ELSE [NoCall EXCEPT !.op = "Tick"]
    /\ UNCHANGED <<config, cache, pc, hist, probe, ext>>

\* a caller's GetKeySet() (it waits for c.m while a Refresh holds it)
CallGetKeySet ==
    /\ pc = "idle"
    /\ LET r == GetKeySet(cachedError, keysStaleSince, cachedJWKSet, config, now)
       IN  last' = [NoCall EXCEPT !.op = "GetKeySet", !.ks = r.ks, !.err = r.err]
    /\ UNCHANGED <<config, now, cache, pc, hist, probe, ext>>

\* Refresh(force) up to the call of c.get(), or its return of (false, nil)
RefreshCall(force) ==
    /\ pc = "idle"
    /\ IF CacheStillValid(force, now, cacheExpiresAfter)
       THEN /\ last' = [NoCall EXCEPT !.op = "Refresh", !.force = force,
                                      !.after = Follows(last, force)]
            /\ pc' = pc
       ELSE /\ last' = [NoCall EXCEPT !.op = "get", !.force = force,
                                      !.after = Follows(last, force)]
            /\ pc' = "get"
    /\ UNCHANGED <<config, now, cache, hist, probe, ext>>

\* Refresh from the return of c.get() to its own return of (true, err)
RefreshInstall(resp) ==
    /\ pc = "get"
    /\ LET r == get(resp)
       IN  /\ keysStaleSince' = StaleSince(r.err, keysStaleSince, now)
           /\ cachedHeaders' = r.headers
           /\ cachedResponse' = r.body
           /\ cachedError' = r.err
           /\ cachedJWKSet' = KeySetAfter(r.err, r.ks, cachedJWKSet)
           /\ cacheExpiresAfter' =
                  updateExpiresAfter(config, cacheExpiresAfter, now, r.headers, r.err)
           /\ last' = [last EXCEPT !.op = "Refresh", !.refreshed = TRUE,
                                   !.err = r.err]
           /\ hist' = IF r.err = NoErr
                      THEN [outcome |-> "ok", prev |-> hist.outcome, okKs |-> r.ks,
                            firstFailAt |-> Zero, err |-> NoErr]
                      ELSE [outcome |-> "fail", prev |-> hist.outcome,
                            okKs |-> hist.okKs,
                            firstFailAt |-> IF hist.outcome = "fail"
                                            THEN hist.firstFailAt ELSE now,
                            err |-> r.err]
    /\ pc' = "idle"
    /\ UNCHANGED <<config, now, probe, ext>>

Next ==
    \/ Tick
    \/ CallGetKeySet
    \/ \E force \in BOOLEAN : RefreshCall(force)
    \/ \E resp \in Responses : RefreshInstall(resp)

Spec == Init /\ [][Next]_vars

----------------------------------------------------------------------------
(* The header calculation on its own: expiresAfter applied to every header *)
(* of the bounded header space.                                            *)

HeaderValues == {Empty, Bad} \cup { Num(n) : n \in 0..MaxAgeVal }

Parts ==
    [key : {cacheControlFieldMaxAge, cacheControlFieldSMaxAge, "public"},
     val : HeaderValues]

CacheControls == UNION { [1..n -> Parts] : n \in 0..MaxParts }

ExpiresValues == {Empty, Bad, Num(Epoch + 1)}

AllHeaders ==
    { Header(cc, age, ex) :
        cc \in CacheControls, age \in HeaderValues, ex \in ExpiresValues }

ProbeInit ==
    /\ config = [CacheMin |-> 0, CacheMax |-> 0, CacheErrors |-> 0,
                 KeepStaleKeys |-> 0]
    /\ now = Epoch
    /\ cacheExpiresAfter = Zero
    /\ cachedResponse = NilBody
    /\ cachedHeaders = NilHeader
    /\ cachedJWKSet = NilKs
    /\ cachedError = NoErr
    /\ keysStaleSince = Zero
    /\ pc = "idle"
    /\ last = NoCall
    /\ hist = NoHist
    /\ probe \in [headers : AllHeaders, t : {Epoch, Epoch + 1},
                  done : {FALSE}, res : {Fail(NoErr)}]
    /\ ExtIdle

\* one call expiresAfter(probe.t, probe.headers)
ProbeExpiresAfter ==
    /\ ~probe.done
    /\ probe' = [probe EXCEPT !.done = TRUE,
                              !.res = expiresAfter(probe.t, probe.headers)]
    /\ UNCHANGED <<config, now, cache, pc, last, hist, ext>>

ProbeNext == ProbeExpiresAfter

SpecExpiry == ProbeInit /\ [][ProbeNext]_vars

----------------------------------------------------------------------------
(* Properties *)

\* what the last installed attempt was
Succeeded == hist.outcome = "ok"
Failed == hist.outcome = "fail"
Grace == hist.firstFailAt + config.KeepStaleKeys

\* a Refresh(force) call has just returned
Returned(force) == pc = "idle" /\ last.op = "Refresh" /\ last.force = force

\* the step is the call of Refresh(force): it returns at once, or goes to fetch
RefreshCalled(force) ==
    /\ pc = "idle"
    /\ last'.op \in {"Refresh", "get"}
    /\ last'.force = force

\* the step is the end of a Refresh call that fetched
Installed == pc = "get" /\ pc' = "idle"

\* C1: stale-serving.  After a success followed by a run of failures whose
\* first was installed at T1, GetKeySet at T1 < t < T1+keepStaleKeys returns
\* the key set of that success and nil, and at t > T1+keepStaleKeys returns
\* no key set and the error of the last attempt; the window starts at the
\* first failure of the run.
C1_StaleServing ==
    (last.op = "GetKeySet" /\ Failed /\ hist.okKs # NilKs) =>
        /\ (hist.firstFailAt < now /\ now < Grace) =>
               (last.ks = hist.okKs /\ last.err = NoErr)
        /\ (now > Grace) =>
               (last.ks = NilKs /\ last.err = hist.err /\ last.err = cachedError)

\* a GetKeySet inside the window of a run of at least two failures
C1_Witness ==
    /\ last.op = "GetKeySet" /\ Failed /\ hist.prev = "fail"
    /\ hist.okKs # NilKs
    /\ hist.firstFailAt < now /\ now < Grace
    /\ last.ks = hist.okKs

\* C2: recovery clears staleness.  Once an attempt succeeded, staleSince is
\* empty, the cached error is nil and GetKeySet returns the new key set and
\* nil until the next installed attempt.
C2_Recovery ==
    Succeeded =>
        /\ keysStaleSince = Zero
        /\ cachedError = NoErr
        /\ last.op = "GetKeySet" => (last.ks = hist.okKs /\ last.err = NoErr)

\* a GetKeySet after a success that followed a failure
C2_Witness ==
    /\ Succeeded /\ hist.prev = "fail"
    /\ last.op = "GetKeySet" /\ last.ks = hist.okKs /\ last.ks # NilKs

\* C3: before any attempt was installed GetKeySet returns ErrKeysNotFetched;
\* after a failure with no earlier success it returns that attempt's error,
\* never ErrKeysNotFetched, never a key set.
C3_NotFetched ==
    last.op = "GetKeySet" =>
        /\ hist.outcome = "none" =>
               (last.ks = NilKs /\ last.err = ErrKeysNotFetched)
        /\ (Failed /\ hist.okKs = NilKs) =>
               /\ last.ks = NilKs
               /\ last.err = hist.err
               /\ last.err \notin {NoErr, ErrKeysNotFetched}

\* a GetKeySet after a first failure, with grace time left
C3_Witness ==
    /\ last.op = "GetKeySet" /\ Failed /\ hist.okKs = NilKs
    /\ now < Grace
    /\ last.err = ErrRequest

\* C4: Refresh(false) at now <= expiresAfter fetches nothing, returns
\* (false, nil) and changes no cache field; on a new client Refresh(false)
\* always fetches.
C4_NoOp ==
    [][ /\ (RefreshCalled(FALSE) /\ now <= cacheExpiresAfter) =>
               /\ pc' = "idle"
               /\ last'.op = "Refresh"
               /\ last'.refreshed = FALSE /\ last'.err = NoErr
               /\ UNCHANGED cache
        /\ (RefreshCalled(FALSE) /\ hist.outcome = "none") => pc' = "get"
      ]_vars

\* a Refresh(false) that returned (false, nil) over a cached error
C4_Witness ==
    /\ Returned(FALSE) /\ ~last.refreshed /\ last.err = NoErr
    /\ cachedError # NoErr
    /\ now <= cacheExpiresAfter

\* C5: after a success installed at now, expiresAfter is
\* max(min(E, now+cacheMax), now+cacheMin) for a header candidate E and
\* now+cacheMin when the header calculation fails; so it is at least
\* now+cacheMin and is now+cacheMin when cacheMin > cacheMax.
C5_Clamp ==
    (Returned(TRUE) \/ Returned(FALSE)) /\ last.refreshed /\ last.err = NoErr =>
        LET E == expiresAfter(now, cachedHeaders)
            floor == now + config.CacheMin
            ceiling == now + config.CacheMax
        IN  /\ E.err = NoErr => cacheExpiresAfter = Max(Min(E.t, ceiling), floor)
            /\ E.err # NoErr => cacheExpiresAfter = floor
            /\ cachedHeaders \in
                  { Header(<<>>, Empty, Empty),
                    Header(<<MaxAgePart(1)>>, Num(2), Empty),
                    Header(<<[key |-> cacheControlFieldMaxAge, val |-> Bad]>>,
                           Empty, Empty) } => cacheExpiresAfter = floor
            /\ cacheExpiresAfter >= floor
            /\ config.CacheMin > config.CacheMax => cacheExpiresAfter = floor

\* a success whose candidate is above the ceiling, the ceiling below the floor
C5_Witness ==
    /\ pc = "idle" /\ last.op = "Refresh" /\ last.refreshed /\ last.err = NoErr
    /\ expiresAfter(now, cachedHeaders).err = NoErr
    /\ expiresAfter(now, cachedHeaders).t > now + config.CacheMax
    /\ config.CacheMin > config.CacheMax
    /\ config.CacheMax > 0

\* the reference of C6, for headers whose values are well formed: numbers
\* where a number is expected, each directive at most once
HasDirective(h, key) == \E i \in DOMAIN h.cc : h.cc[i].key = key
Directive(h, key) == h.cc[CHOOSE i \in DOMAIN h.cc : h.cc[i].key = key].val.n

WellFormed(h) ==
    /\ \A i \in DOMAIN h.cc :
          h.cc[i].key \in {cacheControlFieldMaxAge, cacheControlFieldSMaxAge} =>
              /\ h.cc[i].val.k = "num"
              /\ \A j \in DOMAIN h.cc : h.cc[j].key = h.cc[i].key => j = i
    /\ h.age.k \in {"num", "empty"}
    /\ h.expires.k \in {"num", "empty"}

ReferenceExpiry(t, h) ==
    LET N == IF HasDirective(h, cacheControlFieldMaxAge)
             THEN Directive(h, cacheControlFieldMaxAge)
             ELSE Directive(h, cacheControlFieldSMaxAge)
        M == IF h.age.k = "num" THEN h.age.n ELSE 0
    IN  IF HasDirective(h, cacheControlFieldMaxAge)
           \/ HasDirective(h, cacheControlFieldSMaxAge)
        THEN IF M > N THEN Fail(ErrNegativeAge) ELSE Ok(t + (N - M))
        ELSE IF h.expires.k = "num" THEN Ok(h.expires.n)
             ELSE Fail(ErrNoCacheHeaders)

\* C6: the candidate of expiresAfter(now, headers) is now+(N-M) for
\* max-age=N, or s-maxage=N when there is no max-age, and Age M (0 when
\* absent), a negative-age failure when M > N; else the Expires date; else
\* the failure "cache headers not present".
C6_Candidate ==
    (probe.done /\ WellFormed(probe.headers)) =>
        probe.res = ReferenceExpiry(probe.t, probe.headers)

\* s-maxage before a different max-age, an Age and an Expires date
C6_Witness ==
    /\ probe.done /\ WellFormed(probe.headers)
    /\ Len(probe.headers.cc) = 2
    /\ probe.headers.cc[1].key = cacheControlFieldSMaxAge
    /\ probe.headers.cc[2].key = cacheControlFieldMaxAge
    /\ probe.headers.cc[1].val # probe.headers.cc[2].val
    /\ probe.headers.age = Num(1)
    /\ probe.headers.expires.k = "num"
    /\ probe.res = Ok(probe.t + 1)

\* C7: after a failed attempt installed at now, expiresAfter is
\* now+cacheErrors when cacheErrors > 0 and keeps its value when
\* cacheErrors = 0, whatever the headers, cacheMin and cacheMax.
C7_ErrorExpiry ==
    [][ (Installed /\ cachedError' # NoErr) =>
            cacheExpiresAfter' = IF config.CacheErrors > 0
                                 THEN now + config.CacheErrors
                                 ELSE cacheExpiresAfter
      ]_vars

\* a failed answer with cache headers, cacheErrors = 0, the expiry of an
\* earlier success still ahead
C7_Witness ==
    /\ pc = "idle" /\ last.op = "Refresh" /\ last.refreshed
    /\ last.err = ErrStatus
    /\ cachedHeaders = Header(<<MaxAgePart(2)>>, Empty, Empty)
    /\ config.CacheErrors = 0
    /\ hist.okKs # NilKs
    /\ cacheExpiresAfter > now

\* C8: with cacheErrors = 0, after any failed attempt, forced or not, the
\* next Refresh(false) fetches again.
C8_NeverCached ==
    (config.CacheErrors = 0 /\ Failed /\ Returned(FALSE)) => last.refreshed

\* C9 as stated: of two Refresh(false) calls with no time and no other call
\* in between, the second returns (false, nil) without fetching.
C9_Idempotent ==
    (last.op \in {"Refresh", "get"} /\ ~last.force /\ last.after # "other") =>
        (last.op = "Refresh" /\ ~last.refreshed /\ last.err = NoErr)

\* C9 amended: the same, unless the first call's fetch failed and
\* cacheErrors is not positive, or succeeded under a negative cacheMin.
C9_IdempotentWhenCached ==
    ( /\ last.op \in {"Refresh", "get"} /\ ~last.force /\ last.after # "other"
      /\ ~(last.after = "fetched-err" /\ config.CacheErrors <= 0)
      /\ ~(last.after = "fetched-ok" /\ config.CacheMin < 0) ) =>
        (last.op = "Refresh" /\ ~last.refreshed /\ last.err = NoErr)

\* a second Refresh(false) right after one whose fetch failed
C9_Witness ==
    /\ Returned(FALSE) /\ last.after = "fetched-err"
    /\ config.CacheErrors > 0
    /\ ~last.refreshed /\ last.err = NoErr

\* C10: staleSince is empty exactly when the last installed attempt
\* succeeded or none was installed, else it is the time the first failure of
\* the current run was installed; it is non-empty iff the cached error is
\* non-nil.
C10_StaleSince ==
    /\ hist.outcome \in {"none", "ok"} => keysStaleSince = Zero
    /\ Failed => (keysStaleSince = hist.firstFailAt /\ keysStaleSince # Zero)
    /\ keysStaleSince # Zero <=> cachedError # NoErr

\* a second failure installed later than the first of its run
C10_Witness ==
    /\ Returned(TRUE) /\ last.refreshed
    /\ Failed /\ hist.prev = "fail"
    /\ keysStaleSince < now

\* a Refresh call that fetched has just returned, with a success
InstalledOk ==
    pc = "idle" /\ last.op = "Refresh" /\ last.refreshed /\ last.err = NoErr

\* C22 as stated: cacheMax = 0 is "no ceiling": after a success with
\* cacheMax = 0 whose header candidate E is at least now+cacheMin the
\* installed expiry is E.
C22_NoCeiling ==
    (InstalledOk /\ config.CacheMax = 0) =>
        LET E == expiresAfter(now, cachedHeaders)
        IN  (E.err = NoErr /\ E.t >= now + config.CacheMin) =>
                cacheExpiresAfter = E.t

\* C22 amended: cacheMax = 0 is a ceiling of zero: after a success with
\* cacheMax = 0 the installed expiry is max(min(E, now), now+cacheMin), which
\* is now+cacheMin for every cacheMin >= 0, whatever the headers say.
C22_ZeroCeiling ==
    (InstalledOk /\ config.CacheMax = 0) =>
        LET E == expiresAfter(now, cachedHeaders)
        IN  /\ E.err = NoErr =>
                  cacheExpiresAfter = Max(Min(E.t, now), now + config.CacheMin)
            /\ config.CacheMin >= 0 => cacheExpiresAfter = now + config.CacheMin

\* a success under cacheMax = 0 and cacheMin = 0 whose headers ask for more
\* than zero seconds: the cache has expired the second after
C22_Witness ==
    /\ InstalledOk
    /\ config.CacheMax = 0 /\ config.CacheMin = 0
    /\ expiresAfter(now, cachedHeaders).err = NoErr
    /\ expiresAfter(now, cachedHeaders).t > now
    /\ cacheExpiresAfter = now

\* C23: an attempt that fetched returns refreshed = true with its error and
\* installs its outcome: headers, body and error are the attempt's (nil
\* headers and body after a transport failure, both kept from the answer
\* after a non-200 status), the key set is replaced on success only.
C23_InstallOutcome ==
    [][Installed =>
          /\ last'.op = "Refresh" /\ last'.refreshed
          /\ last'.err = cachedError'
          /\ \E resp \in Responses :
                /\ cachedHeaders' = get(resp).headers
                /\ cachedResponse' = get(resp).body
                /\ cachedError' = get(resp).err
                /\ resp.transportErr =>
                      (cachedHeaders' = NilHeader /\ cachedResponse' = NilBody)
                /\ (~resp.transportErr /\ ~resp.readErr
                                       /\ resp.status # StatusOK) =>
                      /\ cachedError' = ErrStatus
                      /\ cachedHeaders' = resp.headers
                      /\ cachedResponse' = resp.doc
                /\ cachedJWKSet' = IF cachedError' = NoErr
                                    THEN Unmarshal(resp.doc).ks
                                    ELSE cachedJWKSet
          /\ cachedError' = NoErr => cachedJWKSet' # NilKs
    ]_vars

\* a non-200 answer installed over an earlier success: its headers and body
\* are cached, the key set is the earlier one
C23_Witness ==
    /\ pc = "idle" /\ last.op = "Refresh" /\ last.refreshed
    /\ last.err = ErrStatus /\ cachedError = ErrStatus
    /\ cachedResponse # NilBody /\ ~cachedHeaders.isNil
    /\ cachedJWKSet # NilKs /\ hist.prev = "ok"

----------------------------------------------------------------------------
(* The drivers: the blocking Refresher of both clients and the detached    *)
(* autoRefresh task of the client built from options.  The ticker period   *)
(* is one clock unit.  Next to the driver, another caller may call         *)
(* Refresh.                                                                *)

SchedConfigs ==
    [CacheMin : {0, 2}, CacheMax : {3}, CacheErrors : CacheErrorsValues,
     KeepStaleKeys : {0}, ExitOnError : BOOLEAN]

SchedResponses ==
    { Response(TRUE, FALSE, StatusOK, "junk", NilHeader),
      Response(FALSE, FALSE, StatusOK, "doc1", Header(<<>>, Empty, Empty)),
      Response(FALSE, FALSE, StatusOK, "doc2",
               Header(<<MaxAgePart(2)>>, Empty, Empty)) }

\* the closure of Refresher dropping the error
refresh_Swallow(exitOnError, err) == NoErr

\* the refresh closure of Refresher (client.go): the error Refresher returns
refresh(exitOnError, err) ==
    IF err # NoErr /\ exitOnError THEN err ELSE NoErr

\* the closure of New returning the error whatever ExitOnError is
clRefresh_AlwaysFatal(exitOnError, refreshed, err) ==
    IF err # NoErr THEN [refreshed |-> FALSE, err |-> err]
    ELSE [refreshed |-> refreshed, err |-> NoErr]

\* the refresh closure built by New (options): (refreshed, err)
clRefresh(exitOnError, refreshed, err) ==
    IF err # NoErr
    THEN IF exitOnError THEN [refreshed |-> FALSE, err |-> err]
         ELSE [refreshed |-> FALSE, err |-> NoErr]
    ELSE [refreshed |-> refreshed, err |-> NoErr]

\* New: cl.wg.Add(1) when a wait group is configured
WgAdd(w, hasWg) == IF hasWg THEN w + 1 ELSE w

\* autoRefresh leaving without c.wg.Done()
WgDone_Leak(w, hasWg) == w

\* autoRefresh, deferred: c.wg.Done() when a wait group is configured
WgDone(w, hasWg) == IF hasWg THEN w - 1 ELSE w

\* the context the driver's loop selects on
LoopCtxDone ==
    IF sched.kind = "Refresher" THEN sched.ctxDone ELSE sched.clientCtxDone

\* c.get() of the options client is bound to c.ctx and fails once it is done
GetAborted == variant = "options" /\ sched.clientCtxDone

\* Refresh: the writes of the cache fields after c.get() returned r
InstallCache(r) ==
    /\ keysStaleSince' = StaleSince(r.err, keysStaleSince, now)
    /\ cachedHeaders' = r.headers
    /\ cachedResponse' = r.body
    /\ cachedError' = r.err
    /\ cachedJWKSet' = KeySetAfter(r.err, r.ks, cachedJWKSet)
    /\ cacheExpiresAfter' =
           updateExpiresAfter(config, cacheExpiresAfter, now, r.headers, r.err)

SchedStates ==
    [kind : {"Refresher"}, hasWg : {FALSE}, hasRcb : {FALSE},
     waitFirstFetch : BOOLEAN]
    \cup [kind : {"autoRefresh"}, hasWg : BOOLEAN, hasRcb : BOOLEAN,
          waitFirstFetch : BOOLEAN]

\* New without its first fetch
FirstFetch_Skip(waitFirstFetch) == "none"

\* New: if cl.waitFirstFetch { cl.refresh() } is still to run, or is not asked
FirstFetch(waitFirstFetch) == IF waitFirstFetch THEN "pending" ELSE "none"

NewSched(k) ==
    [kind |-> k.kind, dpc |-> "new", hasWg |-> k.hasWg, hasRcb |-> k.hasRcb,
     ctxDone |-> FALSE, clientCtxDone |-> FALSE, tickC |-> FALSE, wg |-> 0,
     ret |-> NoErr, retCanceled |-> FALSE,
     calls |-> 0, fails |-> 0, lastCall |-> "none", lastErr |-> NoErr,
     cbCount |-> 0, cbKs |-> NilKs, cbErr |-> NoErr,
     waitFirstFetch |-> k.waitFirstFetch,
     first |-> FirstFetch(k.waitFirstFetch), newErr |-> NoErr]

SchedInit ==
    /\ config \in SchedConfigs
    /\ now = Epoch
    /\ cacheExpiresAfter = Zero
    /\ cachedResponse = NilBody
    /\ cachedHeaders = NilHeader
    /\ cachedJWKSet = NilKs
    /\ cachedError = NoErr
    /\ keysStaleSince = Zero
    /\ pc = "idle"
    /\ last = NoCall
    /\ hist = NoHist
    /\ probe = NoProbe
    /\ variant \in {"locked", "options"}
    /\ \E k \in SchedStates :
          /\ k.kind = "autoRefresh" => variant = "options"
          /\ k.waitFirstFetch => variant = "options"
          /\ sched = NewSched(k)
    /\ mu = NoMu
    /\ rf = <<>>
    /\ rd = <<>>
    /\ snap = NoSnap
    /\ KfIdle

schedFrame == <<pc, last, hist, probe, variant, mu, rf, rd, snap, kf>>

\* what New does once cl.refresh() of the first fetch returned (true, err):
\* with an error of the closure it returns (cl, err) and starts no task
AfterFirstFetch(err) ==
    LET e == clRefresh(config.ExitOnError, TRUE, err).err
        seen == [sched EXCEPT
                    !.first = IF err = NoErr THEN "ok" ELSE "fail",
                    !.newErr = e]
    IN  IF e # NoErr /\ sched.kind = "autoRefresh"
        THEN [seen EXCEPT !.dpc = "done", !.ret = e,
                          !.retCanceled = sched.clientCtxDone]
        ELSE seen

\* New with WithWaitFirstFetch: cl.refresh(), the whole call; nobody else
\* has the client yet
NewFirstFetch(resp) ==
    /\ sched.dpc = "new"
    /\ sched.first = "pending"
    /\ ~GetAborted
    /\ IF CacheStillValid(FALSE, now, cacheExpiresAfter)
       THEN /\ UNCHANGED cache
            /\ sched' = [sched EXCEPT !.first = "noop"]
       ELSE /\ InstallCache(get(resp))
            /\ sched' = AfterFirstFetch(get(resp).err)
    /\ UNCHANGED <<config, now, schedFrame>>

\* the same when c.ctx is done: c.get() fails
NewFirstAbort ==
    /\ sched.dpc = "new"
    /\ sched.first = "pending"
    /\ GetAborted
    /\ IF CacheStillValid(FALSE, now, cacheExpiresAfter)
       THEN /\ UNCHANGED cache
            /\ sched' = [sched EXCEPT !.first = "noop"]
       ELSE /\ InstallCache(get(Response(TRUE, FALSE, StatusOK, "junk",
                                          NilHeader)))
            /\ sched' = AfterFirstFetch(ErrRequest)
    /\ UNCHANGED <<config, now, schedFrame>>

\* Refresher(ctx) is called: the ticker is made, client.go goes on to its
\* first refresh();  or New starts the task: wg.Add(1), go cl.autoRefresh()
SchedStart ==
    /\ sched.dpc = "new"
    /\ sched.first # "pending"
    /\ sched' = [sched EXCEPT
          !.dpc = IF sched.kind = "Refresher" /\ variant = "locked"
                  THEN "entry" ELSE "select",
          !.wg = IF sched.kind = "autoRefresh"
                 THEN WgAdd(sched.wg, sched.hasWg) ELSE sched.wg]
    /\ UNCHANGED <<config, now, cache, schedFrame>>

\* a second passes; a running ticker puts a tick in its channel
SchedTick ==
    /\ now < Epoch + MaxTime
    /\ now' = now + 1
    /\ sched' = [sched EXCEPT
          !.tickC = sched.tickC \/ sched.dpc \notin {"new", "done"}]
    /\ UNCHANGED <<config, cache, schedFrame>>

\* the context given to Refresher is canceled
CancelCtx ==
    /\ sched.kind = "Refresher"
    /\ ~sched.ctxDone
    /\ sched' = [sched EXCEPT !.ctxDone = TRUE]
    /\ UNCHANGED <<config, now, cache, schedFrame>>

\* the context of the client (WithContext) is canceled
CancelClientCtx ==
    /\ variant = "options"
    /\ ~sched.clientCtxDone
    /\ sched' = [sched EXCEPT !.clientCtxDone = TRUE]
    /\ UNCHANGED <<config, now, cache, schedFrame>>

\* select: case <-ctx.Done(): return (nil)
DriverSelectDone ==
    /\ sched.dpc = "select"
    /\ LoopCtxDone
    /\ sched' = [sched EXCEPT
          !.dpc = "done", !.ret = NoErr, !.retCanceled = TRUE,
          !.tickC = FALSE,
          !.wg = IF sched.kind = "autoRefresh"
                 THEN WgDone(sched.wg, sched.hasWg) ELSE sched.wg]
    /\ UNCHANGED <<config, now, cache, schedFrame>>

\* the first refresh() of client.go's Refresher, or select: case <-tick.C:
\* the closure calls Refresh(false), which returns (false, nil) or goes to
\* c.get()
DriverRefresh ==
    /\ \/ sched.dpc = "entry"
       \/ sched.dpc = "select" /\ sched.tickC
    /\ sched' = [sched EXCEPT
          !.tickC = IF sched.dpc = "select" THEN FALSE ELSE sched.tickC,
          !.calls = Min(sched.calls + 1, 2),
          !.cbCount = 0,
          !.lastCall = IF CacheStillValid(FALSE, now, cacheExpiresAfter)
                       THEN "noop" ELSE "get",
          !.lastErr = NoErr,
          !.dpc = IF CacheStillValid(FALSE, now, cacheExpiresAfter)
                  THEN "select" ELSE "get"]
    /\ UNCHANGED <<config, now, cache, schedFrame>>

\* what the driver does with the result (true, err) of its Refresh call
AfterRefresh(err) ==
    LET cl == clRefresh(config.ExitOnError, TRUE, err)
        e == IF sched.kind = "Refresher" /\ variant = "locked"
             THEN refresh(config.ExitOnError, err) ELSE cl.err
        seen == [sched EXCEPT
                    !.lastCall = IF err = NoErr THEN "ok" ELSE "fail",
                    !.lastErr = err,
                    !.fails = IF err = NoErr THEN sched.fails
                              ELSE Min(sched.fails + 1, 2)]
    IN  IF e # NoErr
        THEN [seen EXCEPT
                 !.dpc = "done", !.ret = e, !.retCanceled = LoopCtxDone,
                 !.tickC = FALSE,
                 !.wg = IF sched.kind = "autoRefresh"
                        THEN WgDone(sched.wg, sched.hasWg) ELSE sched.wg]
        ELSE IF sched.kind = "autoRefresh" /\ cl.refreshed /\ sched.hasRcb
             THEN [seen EXCEPT !.dpc = "callback"]
             ELSE [seen EXCEPT !.dpc = "select"]

\* c.get() answers, Refresh writes the cache and returns (true, err), the
\* closure and the loop act on it
DriverInstall(resp) ==
    /\ sched.dpc = "get"
    /\ ~GetAborted
    /\ InstallCache(get(resp))
    /\ sched' = AfterRefresh(get(resp).err)
    /\ UNCHANGED <<config, now, schedFrame>>

\* c.get() fails because c.ctx is done
DriverAbort ==
    /\ sched.dpc = "get"
    /\ GetAborted
    /\ InstallCache(get(Response(TRUE, FALSE, StatusOK, "junk", NilHeader)))
    /\ sched' = AfterRefresh(ErrRequest)
    /\ UNCHANGED <<config, now, schedFrame>>

\* autoRefresh: ks, err := c.GetKeySet(); c.rcb(ks, err)
DriverCallback ==
    /\ sched.dpc = "callback"
    /\ LET r == GetKeySet(cachedError, keysStaleSince, cachedJWKSet, config, now)
       IN  sched' = [sched EXCEPT
              !.dpc = "select",
              !.cbCount = Min(sched.cbCount + 1, 2),
              !.cbKs = r.ks, !.cbErr = r.err]
    /\ UNCHANGED <<config, now, cache, schedFrame>>

\* a whole Refresh(force) of another caller.  client.go holds c.m from the
\* expiry check to the return, so the call cannot fall inside the driver's
\* own Refresh; the options client holds it only for the writes.
OtherRefresh(force, resp) ==
    /\ sched.dpc # "done"
    /\ sched.dpc = "new" => sched.kind = "Refresher"
    /\ sched.first # "pending"
    /\ sched.dpc = "get" => variant = "options"
    /\ GetAborted => resp.transportErr
    /\ ~CacheStillValid(force, now, cacheExpiresAfter)
    /\ InstallCache(get(resp))
    /\ UNCHANGED <<config, now, sched, schedFrame>>

SchedNext ==
    \/ \E resp \in SchedResponses : NewFirstFetch(resp)
    \/ NewFirstAbort
    \/ SchedStart
    \/ SchedTick
    \/ CancelCtx
    \/ CancelClientCtx
    \/ DriverSelectDone
    \/ DriverRefresh
    \/ \E resp \in SchedResponses : DriverInstall(resp)
    \/ DriverAbort
    \/ DriverCallback
    \/ \E force \in BOOLEAN, resp \in SchedResponses : OtherRefresh(force, resp)

SpecSched == SchedInit /\ [][SchedNext]_vars

\* the driver runs when it can; of the ready cases of a select each is
\* chosen at random, so a case that stays ready is taken in the end; the
\* transport owes no answer, except the failure of a canceled request
FairSched ==
    /\ SpecSched
    /\ WF_vars(NewFirstAbort)
    /\ WF_vars(SchedStart)
    /\ WF_vars(DriverRefresh)
    /\ WF_vars(DriverCallback)
    /\ WF_vars(DriverAbort)
    /\ SF_vars(DriverSelectDone)

----------------------------------------------------------------------------
(* Properties of the drivers *)

IsRefresher == sched.kind = "Refresher"
IsAutoRefresh == sched.kind = "autoRefresh"

\* C14: Refresher makes a refresh attempt on entry, before it waits for the
\* first tick, in both clients.
C14_ImmediateRefresh ==
    (IsRefresher /\ sched.dpc = "select") => sched.calls >= 1

\* C15: with ExitOnError, Refresher stops at the first of its own attempts
\* that fails and returns that attempt's error, with no further attempt; a
\* tick whose Refresh(false) returned (false, nil) over a cached error does
\* not make it return.
C15_ExitOnError ==
    (IsRefresher /\ config.ExitOnError) =>
        /\ sched.fails >= 1 =>
              /\ sched.dpc = "done"
              /\ sched.lastCall = "fail" /\ sched.fails = 1
              /\ sched.ret = sched.lastErr /\ sched.ret # NoErr
        /\ (sched.dpc = "done" /\ sched.ret # NoErr) => sched.lastCall = "fail"
        /\ (sched.lastCall = "noop" /\ ~sched.ctxDone) => sched.dpc # "done"

\* Refresher returned the error of its second attempt, the first went well
C15_Witness ==
    /\ IsRefresher /\ config.ExitOnError
    /\ sched.dpc = "done" /\ sched.calls = 2 /\ sched.fails = 1
    /\ sched.ret = ErrRequest
    /\ cachedJWKSet # NilKs
    /\ ~sched.ctxDone

\* C16: whenever Refresher returns with its context canceled it returns nil.
C16_CleanCancel ==
    (IsRefresher /\ sched.dpc = "done" /\ sched.retCanceled) => sched.ret = NoErr

\* C17: once the context given to Refresher is canceled, Refresher returns
\* in the end, a fetch in flight being aborted.
C17_CancelAborts ==
    (IsRefresher /\ sched.ctxDone) ~> (sched.dpc = "done")

\* C18: in autoRefresh, after a tick on which Refresh(false) attempted a
\* refresh, failed attempts included, the callback has been called exactly
\* once (DriverCallback passes it what GetKeySet returns); after a tick on
\* which the cache was still fresh it has not been called.
C18_Callback ==
    (IsAutoRefresh /\ sched.hasRcb /\ sched.dpc \in {"select", "done"}) =>
        /\ sched.lastCall \in {"ok", "fail"} => sched.cbCount = 1
        /\ sched.lastCall = "noop" => sched.cbCount = 0

\* C19: the wait group is incremented once before the task starts and
\* decremented once when it exits, on every exit path, never negative; once
\* the client's context is canceled the task exits and the group is released.
C19_WaitGroup ==
    /\ [](IsAutoRefresh =>
            /\ sched.wg >= 0
            /\ sched.hasWg =>
                  sched.wg = IF sched.dpc \in {"new", "done"} THEN 0 ELSE 1)
    /\ (IsAutoRefresh /\ sched.clientCtxDone) ~>
           (sched.dpc = "done" /\ sched.wg = 0)

\* the task left on a refresh error, the wait group released
C19_Witness ==
    /\ IsAutoRefresh /\ sched.hasWg /\ sched.calls >= 1
    /\ sched.dpc = "done" /\ sched.wg = 0
    /\ sched.ret # NoErr
    /\ ~sched.clientCtxDone

\* C20: with ExitOnError = false a driver ends only by the cancellation of
\* its context, whatever number of its refreshes failed.
C20_NotFatal ==
    ~config.ExitOnError =>
        /\ sched.dpc = "done" =>
              (sched.ret = NoErr /\ sched.retCanceled /\ LoopCtxDone)
        /\ (sched.fails >= 1 /\ ~LoopCtxDone) => sched.dpc # "done"

\* the task back at its select after two failed refreshes
C20_Witness ==
    /\ ~config.ExitOnError
    /\ IsAutoRefresh
    /\ sched.fails = 2 /\ sched.lastCall = "fail"
    /\ sched.dpc = "select"
    /\ ~sched.clientCtxDone

\* C21: with WithWaitFirstFetch, New returns only after one attempt was
\* made and installed, so GetKeySet after New gives a key set or the fetch
\* error and never ErrKeysNotFetched; the task starts after that attempt.
C21_WaitFirstFetch ==
    sched.waitFirstFetch =>
        /\ sched.first = "pending" => (sched.dpc = "new" /\ sched.calls = 0)
        /\ sched.first # "pending" =>
              LET r == GetKeySet(cachedError, keysStaleSince, cachedJWKSet,
                                 config, now)
              IN  /\ sched.first \in {"ok", "fail"}
                  /\ cachedError # NoErr \/ cachedJWKSet # NilKs
                  /\ r.err # ErrKeysNotFetched
                  /\ r.ks # NilKs \/ r.err = cachedError

\* New returned after a first fetch that failed, the task runs, no key set
\* was ever loaded
C21_Witness ==
    /\ IsAutoRefresh /\ sched.waitFirstFetch
    /\ sched.first = "fail" /\ sched.dpc = "select"
    /\ cachedJWKSet = NilKs /\ cachedError # NoErr

----------------------------------------------------------------------------
(* Concurrent callers: Refresh calls of two callers (a caller, the blocking *)
(* Refresher, the autoRefresh task) and one reader, GetKeySet or GetAll,    *)
(* interleaved step by step around Client.m.  Every read and every write of *)
(* a cache field is a step of its own.                                      *)

Callers == {"r1", "r2"}

ConcConfigs ==
    [CacheMin : {0}, CacheMax : {3}, CacheErrors : {0},
     KeepStaleKeys : {0}, ExitOnError : {FALSE}]

ConcResponses ==
    { Response(TRUE, FALSE, StatusOK, "junk", NilHeader),
      Response(FALSE, FALSE, StatusOK, "doc1",
               Header(<<MaxAgePart(1)>>, Empty, Empty)) }

\* the cache fields as they stand
Cur ==
    [ks |-> cachedJWKSet, headers |-> cachedHeaders, body |-> cachedResponse,
     err |-> cachedError, staleSince |-> keysStaleSince,
     exp |-> cacheExpiresAfter]

NoRes == [ks |-> NilKs, body |-> NilBody, headers |-> NilHeader, err |-> NoErr]
\* a caller not inside Refresh.  before, newer, late and overwrote observe
\* the order of the attempts: before holds the callers whose fetch was over,
\* and not yet installed, when this caller's fetch began; newer is the cache
\* as an attempt that began later left it (late says there is one);
\* overwrote says the caller's last call installed over such an attempt and
\* left the cache different from it
IdleCaller ==
    [pc |-> "idle", force |-> FALSE, exp |-> Zero, res |-> NoRes,
     before |-> {}, late |-> FALSE, newer |-> NoSnap, overwrote |-> FALSE]

\* the callers whose c.get() has returned and whose writes are not done
Fetched == { p \in Callers : rf[p].pc \in {"lock", "w1", "w2", "w3", "w4",
                                             "w5", "w6"} }
IdleReader ==
    [pc |-> "idle", op |-> "none", todo |-> <<>>, seen |-> {}, vals |-> NoSnap,
     before |-> NoSnap, after |-> NoSnap]

\* the fields GetKeySet consults and the fields GetAll returns, in order
ReadOrder(op) ==
    IF op = "GetKeySet" THEN <<"err", "staleSince", "ks">>
    ELSE <<"ks", "headers", "body", "err">>

\* sync.RWMutex: Lock waits for the writer and the readers to leave
CanLock == mu.w = "none" /\ mu.r = {}

\* sync.RWMutex: RLock waits for the writer to leave
CanRLock_IgnoreWriter == TRUE
CanRLock == mu.w = "none"

ConcInit ==
    /\ config \in ConcConfigs
    /\ now = Epoch
    /\ cacheExpiresAfter = Zero
    /\ cachedResponse = NilBody
    /\ cachedHeaders = NilHeader
    /\ cachedJWKSet = NilKs
    /\ cachedError = NoErr
    /\ keysStaleSince = Zero
    /\ pc = "idle"
    /\ last = NoCall
    /\ hist = NoHist
    /\ probe = NoProbe
    /\ variant \in {"locked", "options"}
    /\ sched = NoSched
    /\ mu = NoMu
    /\ rf = [p \in Callers |-> IdleCaller]
    /\ rd = IdleReader
    /\ snap = NoSnap
    /\ KfIdle

concFrame == <<config, pc, last, hist, probe, variant, sched, kf>>

\* a second passes
ConcTick ==
    /\ now < Epoch + MaxTime
    /\ now' = now + 1
    /\ UNCHANGED <<cache, mu, rf, rd, snap, concFrame>>

\* Refresh(force) begins.  client.go: c.m.Lock(), kept to the return.
\* Options client: RLock, copy c.cacheExpiresAfter, RUnlock.
RefreshBegin(p, force) ==
    /\ rf[p].pc = "idle"
    /\ IF variant = "locked"
       THEN /\ CanLock
            /\ mu' = [mu EXCEPT !.w = p]
       ELSE /\ CanRLock
            /\ mu' = mu
    /\ rf' = [rf EXCEPT ![p] = [IdleCaller EXCEPT
                 !.pc = "check", !.force = force, !.exp = cacheExpiresAfter]]
    /\ UNCHANGED <<now, cache, rd, snap, concFrame>>

\* if !force && !time.Now().After(cacheExpiresAfter) { return false, nil }
RefreshCheck(p) ==
    /\ rf[p].pc = "check"
    /\ IF CacheStillValid(rf[p].force, now, rf[p].exp)
       THEN /\ rf' = [rf EXCEPT ![p] = IdleCaller]
            /\ mu' = IF variant = "locked" THEN [mu EXCEPT !.w = "none"] ELSE mu
       ELSE /\ rf' = [rf EXCEPT ![p].pc = "get",
                                ![p].before = Fetched \ {p}]
            /\ mu' = mu
    /\ UNCHANGED <<now, cache, rd, snap, concFrame>>

\* c.get() returns
RefreshGet(p, resp) ==
    /\ rf[p].pc = "get"
    /\ rf' = [rf EXCEPT ![p].res = get(resp),
                        ![p].pc = IF variant = "locked" THEN "w1" ELSE "lock"]
    /\ UNCHANGED <<now, cache, mu, rd, snap, concFrame>>

\* options client: c.m.Lock() after c.get()
RefreshLock(p) ==
    /\ rf[p].pc = "lock"
    /\ CanLock
    /\ mu' = [mu EXCEPT !.w = p]
    /\ rf' = [rf EXCEPT ![p].pc = "w1"]
    /\ UNCHANGED <<now, cache, rd, snap, concFrame>>

\* the field writes of Refresh, one statement a step; the last one is
\* updateExpiresAfter and the deferred c.m.Unlock()
RefreshWrite(p) ==
    LET r == rf[p].res
        at(l) == rf[p].pc = l
    IN  /\ rf[p].pc \in {"w1", "w2", "w3", "w4", "w5", "w6"}
        /\ keysStaleSince' =
              IF (at("w1") /\ r.err # NoErr) \/ (at("w5") /\ r.err = NoErr)
              THEN StaleSince(r.err, keysStaleSince, now) ELSE keysStaleSince
        /\ cachedHeaders' = IF at("w2") THEN r.headers ELSE cachedHeaders
        /\ cachedResponse' = IF at("w3") THEN r.body ELSE cachedResponse
        /\ cachedError' = IF at("w4") THEN r.err ELSE cachedError
        /\ cachedJWKSet' =
              IF at("w5") THEN KeySetAfter(r.err, r.ks, cachedJWKSet)
              ELSE cachedJWKSet
        /\ cacheExpiresAfter' =
              IF at("w6")
              THEN updateExpiresAfter(config, cacheExpiresAfter, now,
                                      r.headers, r.err)
              ELSE cacheExpiresAfter
        /\ IF at("w6")
           THEN /\ rf' = [q \in Callers |->
                            IF q = p
                            THEN [IdleCaller EXCEPT
                                    !.overwrote = rf[p].late
                                                  /\ Cur' # rf[p].newer]
                            ELSE IF q \in rf[p].before
                            THEN [rf[q] EXCEPT !.late = TRUE, !.newer = Cur',
                                               !.before = @ \ {p}]
                            ELSE [rf[q] EXCEPT !.before = @ \ {p}]]
                /\ mu' = [mu EXCEPT !.w = "none"]
                /\ snap' = Cur'
           ELSE /\ rf' = [rf EXCEPT ![p].pc =
                             CASE at("w1") -> "w2" [] at("w2") -> "w3"
                               [] at("w3") -> "w4" [] at("w4") -> "w5"
                               [] OTHER -> "w6"]
                /\ mu' = mu
                /\ snap' = snap
        /\ UNCHANGED <<now, concFrame, rd>>

\* GetKeySet / GetAll: c.m.RLock()
ReadBegin(op) ==
    /\ rd.pc \in {"idle", "ret"}
    /\ CanRLock
    /\ mu' = [mu EXCEPT !.r = {"reader"}]
    /\ rd' = [IdleReader EXCEPT !.pc = "read", !.op = op,
                                !.todo = ReadOrder(op), !.before = snap]
    /\ UNCHANGED <<now, cache, rf, snap, concFrame>>

\* the reader reads its next field
ReadField ==
    /\ rd.pc = "read"
    /\ rd.todo # <<>>
    /\ LET f == Head(rd.todo)
       IN  rd' = [rd EXCEPT !.todo = Tail(rd.todo),
                            !.seen = rd.seen \cup {f},
                            !.vals = [rd.vals EXCEPT ![f] = Cur[f]]]
    /\ UNCHANGED <<now, cache, mu, rf, snap, concFrame>>

\* the deferred c.m.RUnlock() and the return
ReadEnd ==
    /\ rd.pc = "read"
    /\ rd.todo = <<>>
    /\ mu' = [mu EXCEPT !.r = {}]
    /\ rd' = [rd EXCEPT !.pc = "ret", !.after = snap]
    /\ UNCHANGED <<now, cache, rf, snap, concFrame>>

ConcNext ==
    \/ ConcTick
    \/ \E p \in Callers, force \in BOOLEAN : RefreshBegin(p, force)
    \/ \E p \in Callers : RefreshCheck(p)
    \/ \E p \in Callers, resp \in ConcResponses : RefreshGet(p, resp)
    \/ \E p \in Callers : RefreshLock(p)
    \/ \E p \in Callers : RefreshWrite(p)
    \/ \E op \in {"GetKeySet", "GetAll"} : ReadBegin(op)
    \/ ReadField
    \/ ReadEnd

SpecConc == ConcInit /\ [][ConcNext]_vars

----------------------------------------------------------------------------
(* Properties of the concurrent callers *)

FetchInFlight == { p \in Callers : rf[p].pc = "get" }
Writing == { p \in Callers : rf[p].pc \in {"w2", "w3", "w4", "w5", "w6"} }
SameOn(fields, a, b) == \A f \in fields : a[f] = b[f]

\* C11: what one GetAll returns and what one GetKeySet consults all belongs
\* to one installed state, the one before or the one after a refresh, never
\* to a state with only some of a refresh's writes done.
C11_AllOrNothing ==
    /\ rd.pc = "read" => SameOn(rd.seen, rd.vals, rd.before)
    /\ rd.pc = "ret" =>
          \/ SameOn(rd.seen, rd.vals, rd.before)
          \/ SameOn(rd.seen, rd.vals, rd.after)
    /\ mu.r # {} => Writing = {}

\* GetAll returned while a caller of the options client, its fetch done,
\* waits for the lock with an answer that differs from the cache
C11_Witness ==
    /\ variant = "options"
    /\ rd.pc = "ret" /\ rd.op = "GetAll"
    /\ rd.vals.ks # NilKs /\ rd.vals.err = NoErr
    /\ \E p \in Callers : rf[p].pc = "lock" /\ rf[p].res.err # NoErr

\* C12: in the options client at most one fetch is in flight at any time.
C12_OneFetch ==
    variant = "options" => Cardinality(FetchInFlight) <= 1

\* C27: in the options client, if attempt A's fetch was over before attempt
\* B's fetch began, A is not installed after B: once both have returned the
\* cache is the outcome of B.
C27_NoStaleOverwrite ==
    variant = "options" => \A p \in Callers : ~rf[p].overwrote

\* C13: while a fetch is in flight a reader does not wait, in either client.
C13_ReadersNotBlocked ==
    FetchInFlight # {} => CanRLock

----------------------------------------------------------------------------
(* The key directory: GetFileMetadata, skipFile and FileMetadatas.Hash of   *)
(* package keyfiles.  A file name is its text cut in pieces; a directory    *)
(* is what os.ReadDir lists, sorted by name, each entry with what os.Stat   *)
(* says of it (of its target, for a symlink).                               *)

MaxEntries == 2     \* entries in a directory

ErrReadDir == "read dir"
ErrStat == "stat"

\* the names, in the order of os.ReadDir (byte order: "." sorts before "a")
NameList ==
    << <<".", "a">>, <<".", "a", ".ignore">>, <<".ignore">>, <<"a">>,
       <<"a", ".ignore">>, <<"b">> >>
Names == { NameList[i] : i \in DOMAIN NameList }
NameIndex(name) == CHOOSE i \in DOMAIN NameList : NameList[i] = name

\* strings.HasPrefix(name, ".")
HasPrefixDot(name) == Head(name) \in {".", ".ignore"}
\* strings.HasSuffix(name, ".ignore")
HasSuffixIgnore(name) == name[Len(name)] = ".ignore"

\* an entry: statErr says os.Stat fails on it (a dangling symlink, a file
\* removed since the listing); pem says its content is an EC private key;
\* mtime counts half milliseconds
Entry(name, isDir, size, mtime, statErr, pem) ==
    [name |-> name, isDir |-> isDir, size |-> size, mtime |-> mtime,
     statErr |-> statErr, pem |-> pem]

Sorted(entries) ==
    \A i, j \in DOMAIN entries :
        i < j => NameIndex(entries[i].name) < NameIndex(entries[j].name)

\* skipFile testing the name before the kind
skipFile_NameFirst(info) ==
    IF HasPrefixDot(info.name) THEN [skip |-> TRUE, reason |-> "hidden file"]
    ELSE IF HasSuffixIgnore(info.name)
    THEN [skip |-> TRUE, reason |-> "ignored file"]
    ELSE IF info.isDir THEN [skip |-> TRUE, reason |-> "directory"]
    ELSE [skip |-> FALSE, reason |-> ""]

\* skipFile
skipFile(info) ==
    IF info.isDir THEN [skip |-> TRUE, reason |-> "directory"]
    ELSE IF HasPrefixDot(info.name)
    THEN [skip |-> TRUE, reason |-> "hidden file"]
    ELSE IF HasSuffixIgnore(info.name)
    THEN [skip |-> TRUE, reason |-> "ignored file"]
    ELSE [skip |-> FALSE, reason |-> ""]

FileMetadata(e) == [Name |-> e.name, Size |-> e.size, ModTime |-> e.mtime]

\* the loop of GetFileMetadata from entry i on
RECURSIVE statEntries(_, _, _, _)
statEntries(entries, i, files, skipped) ==
    IF i > Len(entries)
    THEN [done |-> TRUE, files |-> files, skipped |-> skipped, err |-> NoErr]
    ELSE IF entries[i].statErr
    THEN [done |-> TRUE, files |-> files, skipped |-> skipped, err |-> ErrStat]
    ELSE IF skipFile(entries[i]).skip
    THEN statEntries(entries, i + 1, files,
                     skipped \cup {[name |-> entries[i].name,
                                    reason |-> skipFile(entries[i]).reason]})
    ELSE statEntries(entries, i + 1,
                     Append(files, FileMetadata(entries[i])), skipped)

\* GetFileMetadata(dir); skipped is the map as its set of (name, reason)
GetFileMetadata(d) ==
    IF ~d.readable
    THEN [done |-> TRUE, files |-> <<>>, skipped |-> {}, err |-> ErrReadDir]
    ELSE statEntries(d.entries, 1, <<>>, {})

\* ModTime.UnixMilli()
UnixMilli(mtime) == mtime \div 2

\* FileMetadatas.Hash: the digest stands for what was written to the hash,
\* for each file its index, size, modification time in milliseconds, name;
\* a digest has 16 bytes
Hash(files) ==
    [len |-> 16,
     sum |-> [i \in DOMAIN files |->
                 <<i - 1, files[i].Size, UnixMilli(files[i].ModTime),
                   files[i].Name>>]]

\* every directory of the bounded space
ProbeEntries ==
    { Entry(n, d, sz, 2, se, TRUE) :
          n \in Names, d \in BOOLEAN, sz \in {0, 1}, se \in BOOLEAN }

ProbeDirs ==
    {NoDir} \cup
    { [readable |-> TRUE, entries |-> es] :
          es \in { x \in UNION { [1..n -> ProbeEntries] : n \in 0..MaxEntries } :
                       Sorted(x) } }

clientIdle ==
    /\ config \in {[CacheMin |-> 0, CacheMax |-> 0, CacheErrors |-> 0,
                    KeepStaleKeys |-> 0]}
    /\ now = Epoch
    /\ cacheExpiresAfter = Zero
    /\ cachedResponse = NilBody
    /\ cachedHeaders = NilHeader
    /\ cachedJWKSet = NilKs
    /\ cachedError = NoErr
    /\ keysStaleSince = Zero
    /\ pc = "idle"
    /\ last = NoCall
    /\ hist = NoHist
    /\ probe = NoProbe
    /\ variant = "locked"
    /\ sched = NoSched
    /\ mu = NoMu
    /\ rf = <<>>
    /\ rd = <<>>
    /\ snap = NoSnap

clientFrame ==
    <<config, now, cache, pc, last, hist, probe, variant, sched, mu, rf, rd,
      snap>>

FilesInit ==
    /\ clientIdle
    /\ dir \in ProbeDirs
    /\ listing = NoListing
    /\ watcher = NoWatcher
    /\ loader = NoLoader

ProbeGetFileMetadata ==
    /\ ~listing.done
    /\ listing' = GetFileMetadata(dir)
    /\ UNCHANGED <<clientFrame, dir, watcher, loader>>

FilesNext == ProbeGetFileMetadata

SpecFiles == FilesInit /\ [][FilesNext]_vars

----------------------------------------------------------------------------
(* Properties of the directory listing *)

\* the entries that are skipped, and why, as the claim tells it
Skippable(e) == e.isDir \/ HasPrefixDot(e.name) \/ HasSuffixIgnore(e.name)
Reason(e) ==
    IF e.isDir THEN "directory"
    ELSE IF HasPrefixDot(e.name) THEN "hidden file" ELSE "ignored file"
IsListed(e) == ~Skippable(e)
InFiles(name) == { i \in DOMAIN listing.files : listing.files[i].Name = name }

\* the entries of dir are parted between the skipped map and the list
Partitioned ==
    /\ \A i \in DOMAIN dir.entries :
          LET e == dir.entries[i]
          IN  IF Skippable(e)
              THEN /\ [name |-> e.name, reason |-> Reason(e)] \in listing.skipped
                   /\ InFiles(e.name) = {}
              ELSE /\ Cardinality(InFiles(e.name)) = 1
                   /\ \A r \in listing.skipped : r.name # e.name
    /\ Cardinality(listing.skipped) =
           Cardinality({ i \in DOMAIN dir.entries : Skippable(dir.entries[i]) })
    /\ LET kept == SelectSeq(dir.entries, IsListed)
       IN  listing.files = [i \in DOMAIN kept |-> FileMetadata(kept[i])]
    /\ dir.entries = <<>> => (listing.files = <<>> /\ listing.skipped = {})

\* C24 as stated: GetFileMetadata parts the entries of the directory between
\* the skipped map (directories, hidden and ignored files, with the reason,
\* tested in that order) and the list (name, size, time, in listing order);
\* an unreadable directory gives an error.
C24_Partition ==
    listing.done =>
        /\ dir.readable => Partitioned
        /\ ~dir.readable => listing.err # NoErr

\* C24 amended: the same when GetFileMetadata returns no error; when
\* os.Stat fails on an entry it returns an error, with the list and the map
\* of the entries before that one.
C24_PartitionWhenStatable ==
    listing.done =>
        /\ listing.err = NoErr => (dir.readable /\ Partitioned)
        /\ ~dir.readable =>
              (listing.err = ErrReadDir /\ listing.files = <<>>
                                        /\ listing.skipped = {})
        /\ listing.err = NoErr <=>
              (dir.readable /\ \A i \in DOMAIN dir.entries :
                                   ~dir.entries[i].statErr)
        /\ listing.err = ErrStat =>
              /\ Len(listing.files) + Cardinality(listing.skipped)
                     < Len(dir.entries)
              /\ \A i \in DOMAIN listing.files : \E j \in DOMAIN dir.entries :
                    /\ listing.files[i] = FileMetadata(dir.entries[j])
                    /\ \A k \in 1..j : ~dir.entries[k].statErr

\* a hidden directory whose name ends in ".ignore" next to a plain file
C24_Witness ==
    /\ listing.done /\ listing.err = NoErr
    /\ Len(listing.files) = 1
    /\ \E r \in listing.skipped :
          /\ r.reason = "directory"
          /\ HasPrefixDot(r.name) /\ HasSuffixIgnore(r.name)

----------------------------------------------------------------------------
(* The directory watcher (Watcher.Watch) and the loader that consumes its   *)
(* events (Keyloader.LoadKeysWatch, Keyloader.LoadKeys).  Events is an      *)
(* unbuffered channel: a send and its receive are one step.                 *)

ErrInterval == "watcher can not be started with interval <= 0"
ErrMetadata == "getting file metadata"
ErrLoadKey == "loading key"

\* []byte{} and nil
EmptyBytes == [len |-> 0, sum |-> <<>>]

KeyFile(name, mtime, pem) == Entry(name, FALSE, 1, mtime, FALSE, pem)
OneFile(e) == [readable |-> TRUE, entries |-> <<e>>]

\* the directories the watched directory moves between: unreadable, empty,
\* a key file touched within one millisecond and in the next, a file that is
\* no key
WatchDirs ==
    { NoDir,
      [readable |-> TRUE, entries |-> <<>>],
      OneFile(KeyFile(<<"a">>, 2, TRUE)),
      OneFile(KeyFile(<<"a">>, 3, TRUE)),
      OneFile(KeyFile(<<"a">>, 4, TRUE)),
      OneFile(KeyFile(<<"b">>, 2, FALSE)) }

WatchIntervals == {0, 1}

WatcherEvent(files, skipped, err) ==
    [Files |-> files, Skipped |-> skipped, Error |-> err]
NoEvent == WatcherEvent(<<>>, {}, NoErr)

\* NewWatcher, and Watch not yet called.  n, hash, prev, emitted, sent,
\* sentPrev and nsent observe the checks: their number, the fingerprint of
\* the last check and of the one before, whether the last check emitted,
\* the fingerprints of the last two events emitted and their number
NewWatcher(interval) ==
    [pc |-> "idle", interval |-> interval, oldHash |-> EmptyBytes,
     oldErrStr |-> "", tickC |-> FALSE, ev |-> NoEvent, closed |-> FALSE,
     ret |-> NoErr,
     n |-> 0, hash |-> EmptyBytes, prev |-> EmptyBytes, emitted |-> FALSE,
     sent |-> EmptyBytes, sentPrev |-> EmptyBytes, nsent |-> 0]

NilKeys == [isNil |-> TRUE, ids |-> {}]
KeySet(ids) == [isNil |-> FALSE, ids |-> ids]

\* NewKeyloader with its options.  handled, cb and cbKs observe the last
\* event: what became of it, the calls of the refresh callback it caused
\* and the argument of the last one
NewKeyloader(failOnError, hasRcb, hasWg) ==
    [pc |-> "new", ctxDone |-> FALSE, FailOnError |-> failOnError,
     hasRcb |-> hasRcb, hasWg |-> hasWg, keys |-> NilKeys,
     wg |-> IF hasWg THEN 1 ELSE 0, ev |-> NoEvent, retErr |-> NoErr,
     handled |-> "none", cb |-> 0, cbKs |-> NilKeys]

\* check: every check emits
Changed_Always(hash, oldHash) == TRUE

\* check: !bytes.Equal(hash, oldHash)
Changed(hash, oldHash) == hash # oldHash

\* the error of files.Hash(): writes to a bytes.Buffer do not fail
HashErr == NoErr

\* the closure check of Watch, up to its send; err is the variable of that
\* name after hash, err := files.Hash()
check(w) ==
    LET g == GetFileMetadata(dir)
        hash == Hash(g.files)
        err == HashErr
        seen == [w EXCEPT !.n = Min(w.n + 1, 2), !.hash = hash,
                          !.prev = w.hash, !.emitted = FALSE,
                          !.pc = "select"]
        emit(x) == [x EXCEPT
                      !.oldHash = hash,
                      !.ev = WatcherEvent(g.files, g.skipped, err),
                      !.pc = "send", !.emitted = TRUE,
                      !.sent = hash, !.sentPrev = w.sent,
                      !.nsent = Min(w.nsent + 1, 2)]
    IN  IF g.err # NoErr /\ g.err = w.oldErrStr THEN seen
        ELSE IF err # NoErr /\ err = w.oldErrStr THEN seen
        ELSE IF err # NoErr
        THEN emit([seen EXCEPT !.oldErrStr = err])
        ELSE IF ~Changed(hash, w.oldHash)
        THEN [seen EXCEPT !.oldErrStr = ""]
        ELSE emit([seen EXCEPT !.oldErrStr = ""])

\* PEM content of the file of that name
PemOf(d, name) ==
    \E i \in DOMAIN d.entries : d.entries[i].name = name /\ d.entries[i].pem

\* Keyloader.loadKeys
loadKeys(d) ==
    LET g == GetFileMetadata(d)
    IN  IF g.err # NoErr THEN [keys |-> NilKeys, err |-> ErrMetadata]
        ELSE IF \E i \in DOMAIN g.files : ~PemOf(d, g.files[i].Name)
        THEN [keys |-> NilKeys, err |-> ErrLoadKey]
        ELSE [keys |-> KeySet({ g.files[i].Name : i \in DOMAIN g.files }),
              err |-> NoErr]

WatchInit ==
    /\ clientIdle
    /\ dir \in WatchDirs
    /\ listing = NoListing
    /\ \E i \in WatchIntervals : watcher = NewWatcher(i)
    /\ \E f \in BOOLEAN, r \in BOOLEAN, g \in BOOLEAN :
          loader = NewKeyloader(f, r, g)

\* the directory changes on disk
DirChange ==
    /\ dir' \in WatchDirs \ {dir}
    /\ UNCHANGED <<clientFrame, listing, watcher, loader>>

\* LoadKeysWatch up to its range loop: wg.Add(1), go watcher.Watch(...)
LoaderStart ==
    /\ loader.pc = "new"
    /\ loader' = [loader EXCEPT !.pc = "range", !.wg = @ + 1]
    /\ watcher' = [watcher EXCEPT !.pc = "start"]
    /\ UNCHANGED <<clientFrame, dir, listing>>

\* the context given to LoadKeysWatch is canceled
CancelLoaderCtx ==
    /\ loader.pc # "new"
    /\ ~loader.ctxDone
    /\ loader' = [loader EXCEPT !.ctxDone = TRUE]
    /\ UNCHANGED <<clientFrame, dir, listing, watcher>>

\* Watch begins: with interval <= 0 it returns an error at once, before
\* defer close(w.events), and the goroutine goes on to cancel() and
\* wg.Done(); else it makes the ticker and runs the first check
WatchStart ==
    /\ watcher.pc = "start"
    /\ IF watcher.interval <= 0
       THEN /\ watcher' = [watcher EXCEPT !.pc = "exited", !.ret = ErrInterval]
            /\ loader' = [loader EXCEPT !.ctxDone = TRUE, !.wg = @ - 1]
       ELSE /\ watcher' = check(watcher)
            /\ loader' = loader
    /\ UNCHANGED <<clientFrame, dir, listing>>

\* the ticker of Watch fires
WatchTick ==
    /\ watcher.pc \in {"select", "send"}
    /\ ~watcher.tickC
    /\ watcher' = [watcher EXCEPT !.tickC = TRUE]
    /\ UNCHANGED <<clientFrame, dir, listing, loader>>

\* select: case <-ticker.C: check()
WatchCheck ==
    /\ watcher.pc = "select"
    /\ watcher.tickC
    /\ watcher' = check([watcher EXCEPT !.tickC = FALSE])
    /\ UNCHANGED <<clientFrame, dir, listing, loader>>

\* select: case <-ctx.Done(): return nil; the deferred close(w.events);
\* the goroutine's cancel() and wg.Done()
WatchSelectDone ==
    /\ watcher.pc = "select"
    /\ loader.ctxDone
    /\ watcher' = [watcher EXCEPT !.pc = "exited", !.ret = NoErr,
                                  !.closed = TRUE, !.tickC = FALSE]
    /\ loader' = [loader EXCEPT !.wg = @ - 1]
    /\ UNCHANGED <<clientFrame, dir, listing>>

\* w.events <- event meets for event := range watcher.Events
Receive ==
    /\ watcher.pc = "send"
    /\ loader.pc = "range"
    /\ watcher' = [watcher EXCEPT !.pc = "select"]
    /\ loader' = [loader EXCEPT !.pc = "event", !.ev = watcher.ev,
                                !.handled = "none", !.cb = 0]
    /\ UNCHANGED <<clientFrame, dir, listing>>

\* the body of the range loop for one event: LoadKeys, the callbacks, and
\* continue or cancel() and break
LoaderHandle ==
    LET r == loadKeys(dir)
        loaded == [loader EXCEPT
                     !.keys = r.keys, !.handled = "ok",
                     !.cb = IF loader.hasRcb THEN 1 ELSE 0,
                     !.cbKs = IF loader.hasRcb THEN r.keys ELSE loader.cbKs]
        kept == [loader EXCEPT !.handled = "kept"]
        after == IF r.err = NoErr THEN loaded ELSE kept
        leave(e, h) == [loader EXCEPT !.retErr = e, !.ctxDone = TRUE,
                                      !.handled = h, !.pc = "left"]
    IN  /\ loader.pc = "event"
        /\ loader' =
              IF loader.ev.Error # NoErr
              THEN IF loader.FailOnError
                   THEN leave(loader.ev.Error, "fatal")
                   ELSE [loader EXCEPT !.pc = "range", !.handled = "skip"]
              ELSE IF r.err # NoErr /\ loader.FailOnError
              THEN leave(r.err, "fatal")
              ELSE IF loader.hasRcb /\ ~after.keys.isNil
              THEN [after EXCEPT !.pc = "range", !.cb = @ + 1,
                                 !.cbKs = after.keys]
              ELSE [after EXCEPT !.pc = "range"]
        /\ UNCHANGED <<clientFrame, dir, listing, watcher>>

\* the range loop ends on the closed channel
LoaderRangeClosed ==
    /\ loader.pc = "range"
    /\ watcher.closed
    /\ loader' = [loader EXCEPT !.pc = "left"]
    /\ UNCHANGED <<clientFrame, dir, listing, watcher>>

\* after the loop: kl.wg.Done(), or wg.Wait() for the watcher goroutine;
\* return retErr, with the deferred cancel()
LoaderReturn ==
    /\ loader.pc = "left"
    /\ IF loader.hasWg
       THEN loader' = [loader EXCEPT !.pc = "done", !.wg = @ - 1,
                                     !.ctxDone = TRUE]
       ELSE /\ loader.wg = 0
            /\ loader' = [loader EXCEPT !.pc = "done", !.ctxDone = TRUE]
    /\ UNCHANGED <<clientFrame, dir, listing, watcher>>

WatchNext ==
    \/ DirChange
    \/ LoaderStart
    \/ CancelLoaderCtx
    \/ WatchStart
    \/ WatchTick
    \/ WatchCheck
    \/ WatchSelectDone
    \/ Receive
    \/ LoaderHandle
    \/ LoaderRangeClosed
    \/ LoaderReturn

SpecWatch == WatchInit /\ [][WatchNext]_vars

----------------------------------------------------------------------------
(* Properties of the watcher and the loader *)

\* C25: whenever Watch has returned, for any interval, the Events channel
\* is closed.
C25_EventsClosed ==
    watcher.pc = "exited" => watcher.closed

\* C26: the first check emits an event; a later check emits one if and only
\* if its fingerprint differs from that of the check before; two events in
\* a row never carry the same fingerprint.
C26_EmitOnDifference ==
    /\ watcher.n = 1 => watcher.emitted
    /\ watcher.n >= 2 => (watcher.emitted <=> watcher.hash # watcher.prev)
    /\ watcher.nsent >= 2 => watcher.sent # watcher.sentPrev
    /\ watcher.pc = "send" =>
          (watcher.emitted /\ Hash(watcher.ev.Files) = watcher.hash)

\* two events were emitted, and then a check found the file touched within
\* the same millisecond and emitted nothing
C26_Witness ==
    /\ watcher.nsent = 2 /\ watcher.n = 2
    /\ ~watcher.emitted /\ watcher.pc = "select"
    /\ dir = OneFile(KeyFile(<<"a">>, 3, TRUE))

\* C28: once LoadKeysWatch has left its loop the watcher goroutine is not
\* held in its send on Events (where nobody would receive, for good).
C28_WatcherNotStuck ==
    loader.pc \in {"left", "done"} => watcher.pc # "send"

\* C29: an event whose reload succeeded caused exactly one call of the
\* refresh callback, with the new key set; one whose reload failed, the old
\* keys kept, caused none.
C29_OneCallback ==
    loader.hasRcb =>
        /\ loader.handled = "ok" => (loader.cb = 1 /\ loader.cbKs = loader.keys)
        /\ loader.handled = "kept" => loader.cb = 0

====
